---- MODULE Spec2Model ----
(***************************************************************************)
(* A model of fldigi-py (src/flgidi-py/__init__.py): the Fldigi client,    *)
(* its dispatcher _call, the NamespaceProxy and the convenience facade.    *)
(*                                                                         *)
(* A Python str the code inspects or builds (a remote method name, a       *)
(* namespace, an attribute name) is a sequence of one-character strings,   *)
(* so that lower(), `in`, startswith() and the f-string concatenation are  *)
(* computed as Python computes them.  A Python value that is only carried  *)
(* (an argument, a result) is a record [t |-> type name, v |-> payload].   *)
(***************************************************************************)
EXTENDS Integers, Sequences, FiniteSets, TLC

VARIABLES
    accepts_timeout,  \* whether the ServerProxy class in use takes a `timeout` keyword
    host,             \* self._host
    port,             \* self._port
    timeout,          \* self._timeout
    server,           \* self._server: "None" or the URL the ServerProxy is bound to
    instance,         \* TRUE once Fldigi(...) has returned an object to the caller
    last,             \* the last statement the caller ran on the client, and its outcome
    wire              \* the dispatcher calls that statement made, in order

vars == <<accepts_timeout, host, port, timeout, server, instance, last, wire>>

----------------------------------------------------------------------------
(* Bounds of the model *)

\* the longest positional argument list given to a proxy or to _call
MaxArgs == 2
\* get_rx offsets and lengths range over -1 .. MaxInt
MaxInt == 20

----------------------------------------------------------------------------
(* Python str operations *)

UpperChars ==
    <<"A", "B", "C", "D", "E", "F", "G", "H", "I", "J", "K", "L", "M",
      "N", "O", "P", "Q", "R", "S", "T", "U", "V", "W", "X", "Y", "Z">>

LowerChars ==
    <<"a", "b", "c", "d", "e", "f", "g", "h", "i", "j", "k", "l", "m",
      "n", "o", "p", "q", "r", "s", "t", "u", "v", "w", "x", "y", "z">>

\* str.lower() on one character
lower_char(c) ==
    IF \E i \in DOMAIN UpperChars : UpperChars[i] = c
    THEN LowerChars[CHOOSE i \in DOMAIN UpperChars : UpperChars[i] = c]
    ELSE c

\* s.lower()
lower(s) ==
    [i \in 1..Len(s) |-> lower_char(s[i])]

\* sub in s
contains(sub, s) ==
    \E i \in 0..(Len(s) - Len(sub)) : SubSeq(s, i + 1, i + Len(sub)) = sub

\* s.startswith(prefix)
startswith(s, prefix) ==
    /\ Len(s) >= Len(prefix)
    /\ SubSeq(s, 1, Len(prefix)) = prefix

\* f"{namespace}.{name}"
fstring_dotted(namespace, name) ==
    namespace \o <<".">> \o name

----------------------------------------------------------------------------
(* Python values *)

None ==
    [t |-> "NoneType", v |-> 0]

\* an int XML-RPC can carry (the i of FLDIGI's signatures)
int(n) ==
    [t |-> "int", v |-> n]

str(s) ==
    [t |-> "str", v |-> s]

\* bool(x), as `or` uses it
truthy(x) ==
    ~ \/ x.t = "NoneType"
      \/ (x.t = "int" /\ x.v = 0)
      \/ (x.t = "str" /\ x.v = "")

\* a or b
py_or(a, b) ==
    IF truthy(a) THEN a ELSE b

----------------------------------------------------------------------------
(* The transport: what one request to the remote application comes back with *)

\* results the remote application may send back
Results ==
    {int(0), int(14074000), str("BPSK31"), None}

\* the failures of a request that went out; only "Fault" is xmlrpc.client.Fault
Failures ==
    {"Fault", "ProtocolError", "ConnectionRefusedError", "TimeoutError"}

\* what the endpoint does with a request that reaches it
Replies ==
    {[type |-> "ok", value |-> r] : r \in Results}
        \cup {[type |-> f, value |-> None] : f \in Failures}

\* the ServerProxy is made without allow_none: an argument list holding None
\* cannot be marshalled
marshals(args) ==
    \A i \in DOMAIN args : args[i] # None

\* getattr(self._server, method)(*args): the arguments are marshalled first, and
\* TypeError is raised with no request sent when they cannot be; otherwise the
\* request goes out and comes back with `reply`
invoke(args, reply) ==
    IF marshals(args) THEN reply ELSE [type |-> "TypeError", value |-> None]

----------------------------------------------------------------------------
(* Outcomes of a statement: a returned value or a raised exception *)

Returned(value) ==
    [cause |-> "", kind |-> "", method |-> <<>>, tag |-> "return", value |-> value]

\* raise kind(... method ...) from cause
Raised(kind, method, cause) ==
    [cause |-> cause, kind |-> kind, method |-> method, tag |-> "raise", value |-> None]

\* the exception classes of the package
FldigiErrors ==
    {"FldigiXmlrpcError", "FldigiRigError", "FldigiModemError", "FldigiMainError"}

----------------------------------------------------------------------------
(* Fldigi._call *)

\* _call's except clauses with the "modem" test ahead of the "rig" test
_call_except_modem_first(method, failure) ==
    IF failure = "Fault"
    THEN IF contains(<<"m", "o", "d", "e", "m">>, lower(method))
         THEN Raised("FldigiModemError", method, failure)
         ELSE IF contains(<<"r", "i", "g">>, lower(method))
         THEN Raised("FldigiRigError", method, failure)
         ELSE IF startswith(method, <<"m", "a", "i", "n", ".">>)
         THEN Raised("FldigiMainError", method, failure)
         ELSE Raised("FldigiXmlrpcError", method, failure)
    ELSE Raised("FldigiXmlrpcError", method, failure)

\* the exception _call raises for a failed request
_call_except(method, failure) ==
    IF failure = "Fault"
    THEN IF contains(<<"r", "i", "g">>, lower(method))
         THEN Raised("FldigiRigError", method, failure)
         ELSE IF contains(<<"m", "o", "d", "e", "m">>, lower(method))
         THEN Raised("FldigiModemError", method, failure)
         ELSE IF startswith(method, <<"m", "a", "i", "n", ".">>)
         THEN Raised("FldigiMainError", method, failure)
         ELSE Raised("FldigiXmlrpcError", method, failure)
    ELSE Raised("FldigiXmlrpcError", method, failure)

\* self._call(method, *args), the endpoint answering a request with `reply`: what
\* the call returns or raises, and its record: the method and arguments, what the
\* transport did (reply) and whether a request went out (sent)
_call(method, args, reply) ==
    LET got == invoke(args, reply)
        out == IF got.type = "ok"
               THEN Returned(got.value)
               ELSE _call_except(method, got.type)
    IN  [out  |-> out,
         wire |-> <<[args |-> args, method |-> method, out |-> out, reply |-> got,
                     sent |-> marshals(args)]>>]

----------------------------------------------------------------------------
(* try: ... except FldigiRigError: ... of the frequency, mode and bandwidth properties *)

\* the same with `except FldigiError`, the base class
except_FldigiError(first, fallback) ==
    IF first.out.tag = "raise" /\ first.out.kind \in FldigiErrors
    THEN [out |-> fallback.out, wire |-> first.wire \o fallback.wire]
    ELSE first

\* `first` is the try block's call; `fallback` the call of the except block
except_FldigiRigError(first, fallback) ==
    IF first.out.tag = "raise" /\ first.out.kind = "FldigiRigError"
    THEN [out |-> fallback.out, wire |-> first.wire \o fallback.wire]
    ELSE first

\* a method or setter whose body is the bare statement self._call(...): it returns None
statement_only(c) ==
    IF c.out.tag = "return" THEN [out |-> Returned(None), wire |-> c.wire] ELSE c

----------------------------------------------------------------------------
(* The convenience methods and properties of Fldigi, in source order *)

\* def rx(self), line 115; the name rx is bound again at line 297
rx_method(reply) ==
    _call(<<"m", "a", "i", "n", ".", "r", "x">>,
          <<>>, reply)

\* def tx(self), line 124; the name tx is bound again at line 307
tx_method(reply) ==
    statement_only(
    _call(<<"m", "a", "i", "n", ".", "t", "x">>,
          <<>>, reply))

tune(reply) ==
    statement_only(
    _call(<<"m", "a", "i", "n", ".", "t", "u", "n", "e">>,
          <<>>, reply))

abort(reply) ==
    statement_only(
    _call(<<"m", "a", "i", "n", ".", "a", "b", "o", "r", "t">>,
          <<>>, reply))

add_tx(txt, reply) ==
    statement_only(
    _call(<<"t", "e", "x", "t", ".", "a", "d", "d", "_", "t", "x">>,
          <<txt>>, reply))

clear_rx(reply) ==
    statement_only(
    _call(<<"t", "e", "x", "t", ".", "c", "l", "e", "a", "r", "_", "r", "x">>,
          <<>>, reply))

clear_tx(reply) ==
    statement_only(
    _call(<<"t", "e", "x", "t", ".", "c", "l", "e", "a", "r", "_", "t", "x">>,
          <<>>, reply))

\* get_rx passing length as given
get_rx_without_or(start, length, reply) ==
    _call(<<"t", "e", "x", "t", ".", "g", "e", "t", "_", "r", "x">>,
          <<start, int(0), length>>, reply)

get_rx(start, length, reply) ==
    _call(<<"t", "e", "x", "t", ".", "g", "e", "t", "_", "r", "x">>,
          <<start, int(0), py_or(length, int(0))>>, reply)

frequency_get(reply, reply2) ==
    except_FldigiRigError(
        _call(<<"r", "i", "g", ".", "g", "e", "t", "_", "f", "r", "e", "q", "u", "e", "n", "c", "y">>,
              <<>>, reply),
        _call(<<"m", "a", "i", "n", ".", "g", "e", "t", "_", "f", "r", "e", "q", "u", "e", "n", "c", "y">>,
              <<>>, reply2))

\* the setter with a fallback call that leaves the value out
frequency_set_dropping_value(freq, reply, reply2) ==
    except_FldigiRigError(
        statement_only(
        _call(<<"r", "i", "g", ".", "s", "e", "t", "_", "f", "r", "e", "q", "u", "e", "n", "c", "y">>,
              <<freq>>, reply)),
        statement_only(
        _call(<<"m", "a", "i", "n", ".", "s", "e", "t", "_", "f", "r", "e", "q", "u", "e", "n", "c", "y">>,
              <<>>, reply2)))

frequency_set(freq, reply, reply2) ==
    except_FldigiRigError(
        statement_only(
        _call(<<"r", "i", "g", ".", "s", "e", "t", "_", "f", "r", "e", "q", "u", "e", "n", "c", "y">>,
              <<freq>>, reply)),
        statement_only(
        _call(<<"m", "a", "i", "n", ".", "s", "e", "t", "_", "f", "r", "e", "q", "u", "e", "n", "c", "y">>,
              <<freq>>, reply2)))

\* the getter trying main.get_mode once more when the fallback fails
mode_get_retrying(reply, reply2) ==
    except_FldigiError(
        except_FldigiRigError(
            _call(<<"r", "i", "g", ".", "g", "e", "t", "_", "m", "o", "d", "e">>,
                  <<>>, reply),
            _call(<<"m", "a", "i", "n", ".", "g", "e", "t", "_", "m", "o", "d", "e">>,
                  <<>>, reply2)),
        _call(<<"m", "a", "i", "n", ".", "g", "e", "t", "_", "m", "o", "d", "e">>,
              <<>>, reply2))

mode_get(reply, reply2) ==
    except_FldigiRigError(
        _call(<<"r", "i", "g", ".", "g", "e", "t", "_", "m", "o", "d", "e">>,
              <<>>, reply),
        _call(<<"m", "a", "i", "n", ".", "g", "e", "t", "_", "m", "o", "d", "e">>,
              <<>>, reply2))

mode_set(mode_name, reply, reply2) ==
    except_FldigiRigError(
        statement_only(
        _call(<<"r", "i", "g", ".", "s", "e", "t", "_", "m", "o", "d", "e">>,
              <<mode_name>>, reply)),
        statement_only(
        _call(<<"m", "a", "i", "n", ".", "s", "e", "t", "_", "m", "o", "d", "e">>,
              <<mode_name>>, reply2)))

bandwidth_get(reply, reply2) ==
    except_FldigiRigError(
        _call(<<"r", "i", "g", ".", "g", "e", "t", "_", "b", "a", "n", "d", "w", "i", "d", "t", "h">>,
              <<>>, reply),
        _call(<<"m", "a", "i", "n", ".", "g", "e", "t", "_", "b", "a", "n", "d", "w", "i", "d", "t", "h">>,
              <<>>, reply2))

bandwidth_set(bw, reply, reply2) ==
    except_FldigiRigError(
        statement_only(
        _call(<<"r", "i", "g", ".", "s", "e", "t", "_", "b", "a", "n", "d", "w", "i", "d", "t", "h">>,
              <<bw>>, reply)),
        statement_only(
        _call(<<"m", "a", "i", "n", ".", "s", "e", "t", "_", "b", "a", "n", "d", "w", "i", "d", "t", "h">>,
              <<bw>>, reply2)))

squelch_get(reply) ==
    _call(<<"m", "a", "i", "n", ".", "g", "e", "t", "_", "s", "q", "u", "e", "l", "c", "h", "_", "l", "e", "v", "e", "l">>,
          <<>>, reply)

squelch_set(level, reply) ==
    statement_only(
    _call(<<"m", "a", "i", "n", ".", "s", "e", "t", "_", "s", "q", "u", "e", "l", "c", "h", "_", "l", "e", "v", "e", "l">>,
          <<level>>, reply))

signal_strength(reply) ==
    _call(<<"m", "o", "d", "e", "m", ".", "g", "e", "t", "_", "q", "u", "a", "l", "i", "t", "y">>,
          <<>>, reply)

rx_state(reply) ==
    _call(<<"m", "a", "i", "n", ".", "r", "x">>,
          <<>>, reply)

tx_state(reply) ==
    _call(<<"m", "a", "i", "n", ".", "t", "x">>,
          <<>>, reply)

----------------------------------------------------------------------------
(* NamespaceProxy and the namespace properties of Fldigi *)

\* NamespaceProxy(client, namespace)
NamespaceProxy(namespace) ==
    [class |-> "NamespaceProxy", namespace |-> namespace]

\* method(*args, **kwargs) forwarding the arguments last to first
__getattr___reversing(self, name, args, kwargs, reply) ==
    IF kwargs # {}
    THEN [out |-> Raised("TypeError", <<>>, ""), wire |-> <<>>]
    ELSE _call(fstring_dotted(self.namespace, name),
               [i \in 1..Len(args) |-> args[Len(args) + 1 - i]], reply)

\* NamespaceProxy.__getattr__(name) gives `method`; this is method(*args, **kwargs).
\* _call takes no keyword arguments: binding one raises TypeError before _call runs.
__getattr__(self, name, args, kwargs, reply) ==
    IF kwargs # {}
    THEN [out |-> Raised("TypeError", <<>>, ""), wire |-> <<>>]
    ELSE _call(fstring_dotted(self.namespace, name), args, reply)

fldigi ==
    NamespaceProxy(<<"f", "l", "d", "i", "g", "i">>)

main ==
    NamespaceProxy(<<"m", "a", "i", "n">>)

rig ==
    NamespaceProxy(<<"r", "i", "g">>)

text ==
    NamespaceProxy(<<"t", "e", "x", "t">>)

modem ==
    NamespaceProxy(<<"m", "o", "d", "e", "m">>)

modem_olivia ==
    NamespaceProxy(<<"m", "o", "d", "e", "m", ".", "o", "l", "i", "v", "i", "a">>)

rx ==
    NamespaceProxy(<<"r", "x">>)

rxtx ==
    NamespaceProxy(<<"r", "x", "t", "x">>)

tx ==
    NamespaceProxy(<<"t", "x">>)

log ==
    NamespaceProxy(<<"l", "o", "g">>)

io ==
    NamespaceProxy(<<"i", "o">>)

spot ==
    NamespaceProxy(<<"s", "p", "o", "t">>)

navtex ==
    NamespaceProxy(<<"n", "a", "v", "t", "e", "x">>)

\* the wefax property bound to the navtex namespace
wefax_as_navtex ==
    NamespaceProxy(<<"n", "a", "v", "t", "e", "x">>)

wefax ==
    NamespaceProxy(<<"w", "e", "f", "a", "x">>)

----------------------------------------------------------------------------
(* Fldigi.__init__ and Fldigi._connect *)

\* f"http://{self._host}:{self._port}"
url(h, p) ==
    <<"http://", h, ":", p>>

\* xmlrpc.client.ServerProxy(url, timeout=...): the class either takes the keyword
\* or raises TypeError, as the standard library's does
ServerProxy(u, takes_timeout) ==
    IF takes_timeout THEN Returned(u) ELSE Raised("TypeError", <<>>, "")

\* self._server = None
no_server == <<>>

\* self._connect(): the new self._server and the outcome
_connect(h, p, takes_timeout) ==
    LET made == ServerProxy(url(h, p), takes_timeout)
    IN  IF made.tag = "return"
        THEN [out |-> Returned(None), server |-> made.value]
        ELSE [out |-> Raised("FldigiXmlrpcError", <<>>, ""), server |-> no_server]

Hosts ==
    {"127.0.0.1", "localhost"}

DefaultPort == 7362

Ports ==
    {DefaultPort, DefaultPort + 1}

Timeouts ==
    {5}

(* The body of class Fldigi: lines 80-334, each def or @property binding its name *)

\* the names the class body binds, in source order
ClassBody ==
    <<[kind |-> "def", name |-> "__init__"],
      [kind |-> "def", name |-> "_connect"],
      [kind |-> "def", name |-> "_call"],
      [kind |-> "def", name |-> "rx"],
      [kind |-> "def", name |-> "tx"],
      [kind |-> "def", name |-> "tune"],
      [kind |-> "def", name |-> "abort"],
      [kind |-> "def", name |-> "add_tx"],
      [kind |-> "def", name |-> "clear_rx"],
      [kind |-> "def", name |-> "clear_tx"],
      [kind |-> "def", name |-> "get_rx"],
      [kind |-> "property", name |-> "frequency"],
      [kind |-> "property", name |-> "mode"],
      [kind |-> "property", name |-> "bandwidth"],
      [kind |-> "property", name |-> "squelch"],
      [kind |-> "property", name |-> "signal_strength"],
      [kind |-> "property", name |-> "rx_state"],
      [kind |-> "property", name |-> "tx_state"],
      [kind |-> "property", name |-> "fldigi"],
      [kind |-> "property", name |-> "main"],
      [kind |-> "property", name |-> "rig"],
      [kind |-> "property", name |-> "text"],
      [kind |-> "property", name |-> "modem"],
      [kind |-> "property", name |-> "modem_olivia"],
      [kind |-> "property", name |-> "rx"],
      [kind |-> "property", name |-> "rxtx"],
      [kind |-> "property", name |-> "tx"],
      [kind |-> "property", name |-> "log"],
      [kind |-> "property", name |-> "io"],
      [kind |-> "property", name |-> "spot"],
      [kind |-> "property", name |-> "navtex"],
      [kind |-> "property", name |-> "wefax"]>>

\* what the name is bound to once the class body has run: its last binding
class_attr(name) ==
    LET bound == {i \in DOMAIN ClassBody : ClassBody[i].name = name}
    IN  ClassBody[CHOOSE i \in bound : \A j \in bound : j <= i].kind

\* calling an object whose class defines no __call__ (a NamespaceProxy)
not_callable ==
    [out |-> Raised("TypeError", <<>>, ""), wire |-> <<>>]

\* client.<name>(...): the def's body, unless the name is bound to a property,
\* whose value (a NamespaceProxy) is then what gets called
call_attribute(name, body) ==
    IF class_attr(name) = "def" THEN body ELSE not_callable

\* client.<name> for a namespace property
namespace_property(name) ==
    CASE name = "fldigi" -> fldigi
      [] name = "main" -> main
      [] name = "rig" -> rig
      [] name = "text" -> text
      [] name = "modem" -> modem
      [] name = "modem_olivia" -> modem_olivia
      [] name = "rx" -> rx
      [] name = "rxtx" -> rxtx
      [] name = "tx" -> tx
      [] name = "log" -> log
      [] name = "io" -> io
      [] name = "spot" -> spot
      [] name = "navtex" -> navtex
      [] name = "wefax" -> wefax

NamespaceProperties ==
    {"fldigi", "main", "rig", "text", "modem", "modem_olivia", "rx", "rxtx",
     "tx", "log", "io", "spot", "navtex", "wefax"}

----------------------------------------------------------------------------
(* The inputs of the statements *)

\* argument values
Values ==
    {int(0), int(14074000), str("CQ CQ"), None}

\* positional argument lists
ArgLists ==
    UNION {[1..n -> Values] : n \in 0..MaxArgs}

\* keyword arguments: none, or one
KwargSets ==
    {{}, {[key |-> "freq", value |-> int(14074000)]}}

\* get_rx offsets, and lengths (None when not given)
Ints ==
    {int(n) : n \in (-1)..MaxInt}

\* attribute names asked of a proxy; none is an attribute the proxy object has
\* (_client, _namespace), so each reaches __getattr__
AttrNames ==
    {<<"g", "e", "t", "_", "m", "o", "d", "e">>,
     <<"s", "e", "t", "_", "f", "r", "e", "q", "u", "e", "n", "c", "y">>,
     <<"g", "e", "t", "_", "t", "r", "i", "g", "g", "e", "r">>,
     <<"G", "E", "T", "_", "B", "A", "N", "D", "W", "I", "D", "T", "H">>}

\* method names given to _call directly
MethodNames ==
    {<<"r", "i", "g", ".", "g", "e", "t", "_", "m", "o", "d", "e">>,
     <<"R", "I", "G", ".", "g", "e", "t", "_", "m", "o", "d", "e">>,
     <<"R", "i", "g", ".", "x">>,
     <<"m", "a", "i", "n", ".", "g", "e", "t", "_", "t", "r", "i", "g", "g", "e", "r">>,
     <<"r", "i", "g", ".", "m", "o", "d", "e", "m">>,
     <<"m", "o", "d", "e", "m", ".", "r", "i", "g">>,
     <<"m", "a", "i", "n", ".", "m", "o", "d", "e", "m">>,
     <<"m", "o", "d", "e", "m", ".", "s", "e", "t", "_", "b", "y", "_", "n", "a", "m", "e">>,
     <<"M", "O", "D", "E", "M", ".", "x">>,
     <<"m", "a", "i", "n", ".", "r", "x">>,
     <<"M", "a", "i", "n", ".", "r", "x">>,
     <<"x", "m", "a", "i", "n", ".", "r", "x">>,
     <<"m", "a", "i", "n", "r", "x">>,
     <<"m", "a", "i", "n", ".">>,
     <<"t", "e", "x", "t", ".", "g", "e", "t", "_", "r", "x">>,
     <<"f", "l", "d", "i", "g", "i", ".", "v", "e", "r", "s", "i", "o", "n">>,
     <<"s", "y", "s", "t", "e", "m", ".", "l", "i", "s", "t", "M", "e", "t", "h", "o", "d", "s">>,
     <<>>}

----------------------------------------------------------------------------
(* The statements a caller runs *)

NoArgs == <<>>

Statement(op, target, attr, args, kwargs, out) ==
    [args |-> args, attr |-> attr, kwargs |-> kwargs, op |-> op, out |-> out,
     target |-> target]

\* the caller holds a client and is not looking at the outcome of a statement
Idle ==
    /\ instance
    /\ last.op \in {"none", "Fldigi"}

\* the statement ran on the client, with result r
Ran(op, target, attr, args, kwargs, r) ==
    /\ last' = Statement(op, target, attr, args, kwargs, r.out)
    /\ wire' = r.wire
    /\ UNCHANGED <<accepts_timeout, host, port, timeout, server, instance>>

\* Fldigi(host, port, timeout)
Construct ==
    /\ ~instance
    /\ \E h \in Hosts, p \in Ports, t \in Timeouts :
        LET c == _connect(h, p, accepts_timeout)
        IN  /\ host' = h
            /\ port' = p
            /\ timeout' = t
            /\ server' = c.server
            /\ instance' = (c.out.tag = "return")
            /\ last' = Statement("Fldigi", "", <<>>, NoArgs, {}, c.out)
            /\ wire' = <<>>
    /\ UNCHANGED accepts_timeout

\* the caller is done with the outcome of its last statement; the client keeps
\* nothing of it
Discard ==
    /\ instance
    /\ last.op \notin {"none", "Fldigi"}
    /\ last' = Statement("none", "", <<>>, NoArgs, {}, Returned(None))
    /\ wire' = <<>>
    /\ UNCHANGED <<accepts_timeout, host, port, timeout, server, instance>>

\* client._call(method, *args)
Call_call ==
    /\ Idle
    /\ \E method \in MethodNames, args \in ArgLists, reply \in Replies :
        Ran("_call", "_call", method, args, {}, _call(method, args, reply))

\* client.rx()
Call_rx ==
    /\ Idle
    /\ \E reply \in Replies :
        Ran("call", "rx", <<>>, NoArgs, {},
            call_attribute("rx", rx_method(reply)))

\* client.tx()
Call_tx ==
    /\ Idle
    /\ \E reply \in Replies :
        Ran("call", "tx", <<>>, NoArgs, {},
            call_attribute("tx", tx_method(reply)))

\* client.tune()
Call_tune ==
    /\ Idle
    /\ \E reply \in Replies :
        Ran("call", "tune", <<>>, NoArgs, {},
            call_attribute("tune", tune(reply)))

\* client.abort()
Call_abort ==
    /\ Idle
    /\ \E reply \in Replies :
        Ran("call", "abort", <<>>, NoArgs, {},
            call_attribute("abort", abort(reply)))

\* client.add_tx(txt)
Call_add_tx ==
    /\ Idle
    /\ \E txt \in Values, reply \in Replies :
        Ran("call", "add_tx", <<>>, <<txt>>, {},
            call_attribute("add_tx", add_tx(txt, reply)))

\* client.clear_rx()
Call_clear_rx ==
    /\ Idle
    /\ \E reply \in Replies :
        Ran("call", "clear_rx", <<>>, NoArgs, {},
            call_attribute("clear_rx", clear_rx(reply)))

\* client.clear_tx()
Call_clear_tx ==
    /\ Idle
    /\ \E reply \in Replies :
        Ran("call", "clear_tx", <<>>, NoArgs, {},
            call_attribute("clear_tx", clear_tx(reply)))

\* client.get_rx(start, length); length None when not given
Call_get_rx ==
    /\ Idle
    /\ \E start \in Ints, length \in Ints \cup {None}, reply \in Replies :
        Ran("call", "get_rx", <<>>, <<start, length>>, {},
            call_attribute("get_rx", get_rx(start, length, reply)))

\* client.frequency
Get_frequency ==
    /\ Idle
    /\ \E reply \in Replies, reply2 \in Replies :
        Ran("get", "frequency", <<>>, NoArgs, {},
            frequency_get(reply, reply2))

\* client.frequency = freq
Set_frequency ==
    /\ Idle
    /\ \E freq \in Values, reply \in Replies, reply2 \in Replies :
        Ran("set", "frequency", <<>>, <<freq>>, {},
            frequency_set(freq, reply, reply2))

\* client.mode
Get_mode ==
    /\ Idle
    /\ \E reply \in Replies, reply2 \in Replies :
        Ran("get", "mode", <<>>, NoArgs, {},
            mode_get(reply, reply2))

\* client.mode = mode_name
Set_mode ==
    /\ Idle
    /\ \E mode_name \in Values, reply \in Replies, reply2 \in Replies :
        Ran("set", "mode", <<>>, <<mode_name>>, {},
            mode_set(mode_name, reply, reply2))

\* client.bandwidth
Get_bandwidth ==
    /\ Idle
    /\ \E reply \in Replies, reply2 \in Replies :
        Ran("get", "bandwidth", <<>>, NoArgs, {},
            bandwidth_get(reply, reply2))

\* client.bandwidth = bw
Set_bandwidth ==
    /\ Idle
    /\ \E bw \in Values, reply \in Replies, reply2 \in Replies :
        Ran("set", "bandwidth", <<>>, <<bw>>, {},
            bandwidth_set(bw, reply, reply2))

\* client.squelch
Get_squelch ==
    /\ Idle
    /\ \E reply \in Replies :
        Ran("get", "squelch", <<>>, NoArgs, {},
            squelch_get(reply))

\* client.squelch = level
Set_squelch ==
    /\ Idle
    /\ \E level \in Values, reply \in Replies :
        Ran("set", "squelch", <<>>, <<level>>, {},
            squelch_set(level, reply))

\* client.signal_strength
Get_signal_strength ==
    /\ Idle
    /\ \E reply \in Replies :
        Ran("get", "signal_strength", <<>>, NoArgs, {},
            signal_strength(reply))

\* client.rx_state
Get_rx_state ==
    /\ Idle
    /\ \E reply \in Replies :
        Ran("get", "rx_state", <<>>, NoArgs, {},
            rx_state(reply))

\* client.tx_state
Get_tx_state ==
    /\ Idle
    /\ \E reply \in Replies :
        Ran("get", "tx_state", <<>>, NoArgs, {},
            tx_state(reply))

\* client.<property>.<name>(*args, **kwargs) for a namespace property
Invoke_proxy ==
    /\ Idle
    /\ \E property \in NamespaceProperties, name \in AttrNames, args \in ArgLists,
         kwargs \in KwargSets, reply \in Replies :
        /\ class_attr(property) = "property"
        /\ Ran("proxy", property, name, args, kwargs,
               __getattr__(namespace_property(property), name, args, kwargs, reply))

----------------------------------------------------------------------------
(* The specification *)

Init ==
    /\ accepts_timeout \in BOOLEAN
    /\ host = "None"
    /\ port = 0
    /\ timeout = 0
    /\ server = no_server
    /\ instance = FALSE
    /\ last = Statement("none", "", <<>>, NoArgs, {}, Returned(None))
    /\ wire = <<>>

Next ==
    \/ Construct
    \/ Invoke_proxy
    \/ Call_call
    \/ Call_rx
    \/ Call_tx
    \/ Call_tune
    \/ Call_abort
    \/ Call_add_tx
    \/ Call_clear_rx
    \/ Call_clear_tx
    \/ Call_get_rx
    \/ Get_frequency
    \/ Set_frequency
    \/ Get_mode
    \/ Set_mode
    \/ Get_bandwidth
    \/ Set_bandwidth
    \/ Get_squelch
    \/ Set_squelch
    \/ Get_signal_strength
    \/ Get_rx_state
    \/ Get_tx_state
    \/ Discard

Spec == Init /\ [][Next]_vars

----------------------------------------------------------------------------
(* Vocabulary of the properties *)

\* the characters of a Python identifier of the client's surface
spelled(name) ==
    CASE name = "fldigi" -> <<"f", "l", "d", "i", "g", "i">>
      [] name = "main" -> <<"m", "a", "i", "n">>
      [] name = "rig" -> <<"r", "i", "g">>
      [] name = "text" -> <<"t", "e", "x", "t">>
      [] name = "modem" -> <<"m", "o", "d", "e", "m">>
      [] name = "modem_olivia" -> <<"m", "o", "d", "e", "m", "_", "o", "l", "i", "v", "i", "a">>
      [] name = "rx" -> <<"r", "x">>
      [] name = "rxtx" -> <<"r", "x", "t", "x">>
      [] name = "tx" -> <<"t", "x">>
      [] name = "log" -> <<"l", "o", "g">>
      [] name = "io" -> <<"i", "o">>
      [] name = "spot" -> <<"s", "p", "o", "t">>
      [] name = "navtex" -> <<"n", "a", "v", "t", "e", "x">>
      [] name = "wefax" -> <<"w", "e", "f", "a", "x">>
      [] name = "frequency" -> <<"f", "r", "e", "q", "u", "e", "n", "c", "y">>
      [] name = "mode" -> <<"m", "o", "d", "e">>
      [] name = "bandwidth" -> <<"b", "a", "n", "d", "w", "i", "d", "t", "h">>

\* the method name contains "rig" in any letter case
HasRig(m) ==
    \E i \in 1..(Len(m) - 2) :
        /\ m[i] \in {"r", "R"}
        /\ m[i + 1] \in {"i", "I"}
        /\ m[i + 2] \in {"g", "G"}

\* the method name contains "modem" in any letter case
HasModem(m) ==
    \E i \in 1..(Len(m) - 4) :
        /\ m[i] \in {"m", "M"}
        /\ m[i + 1] \in {"o", "O"}
        /\ m[i + 2] \in {"d", "D"}
        /\ m[i + 3] \in {"e", "E"}
        /\ m[i + 4] \in {"m", "M"}

\* the method name starts with "main."
HasMainPrefix(m) ==
    /\ Len(m) >= 5
    /\ m[1] = "m" /\ m[2] = "a" /\ m[3] = "i" /\ m[4] = "n" /\ m[5] = "."

\* the decision table of the fault classifier, first match wins
TableKind(m, failure) ==
    IF failure # "Fault" THEN "FldigiXmlrpcError"
    ELSE IF HasRig(m) THEN "FldigiRigError"
    ELSE IF HasModem(m) THEN "FldigiModemError"
    ELSE IF HasMainPrefix(m) THEN "FldigiMainError"
    ELSE "FldigiXmlrpcError"

FallbackProperties ==
    {"frequency", "mode", "bandwidth"}

\* the wire names of a fallback pair
RigName(verb, property) ==
    <<"r", "i", "g", ".">> \o verb \o <<"_">> \o spelled(property)

MainName(verb, property) ==
    <<"m", "a", "i", "n", ".">> \o verb \o <<"_">> \o spelled(property)

VerbGet == <<"g", "e", "t">>

VerbSet == <<"s", "e", "t">>

RaisedKind(out, kind) ==
    out.tag = "raise" /\ out.kind = kind

\* the outcome is the request's own: its result unmodified, or a typed error
\* naming the method with the request's failure as cause
RawOutcome(out, c) ==
    IF c.reply.type = "ok"
    THEN out = Returned(c.reply.value)
    ELSE /\ out.tag = "raise"
         /\ out.kind \in FldigiErrors
         /\ out.method = c.method
         /\ out.cause = c.reply.type

PublicOps ==
    {"call", "get", "set", "proxy"}

\* the failures a dispatcher call can meet: those of a request, and the TypeError
\* of arguments that cannot be marshalled
CallFailures ==
    Failures \cup {"TypeError"}

\* the number of requests the statement sent
RoundTrips ==
    Cardinality({i \in DOMAIN wire : wire[i].sent})

----------------------------------------------------------------------------
(* C1 *)

\* C1: every failed dispatcher call raises the kind the decision table gives for its
\* method name and failure: on a Fault, RigError if the name contains "rig" in any
\* case, else ModemError if it contains "modem" in any case, else MainError if it
\* starts with "main.", else XmlrpcError; on any other failure XmlrpcError.
C1_DispatcherFollowsTable ==
    \A i \in DOMAIN wire :
        wire[i].reply.type # "ok" =>
            RaisedKind(wire[i].out, TableKind(wire[i].method, wire[i].reply.type))

\* _call("rig.modem") met a Fault and raised RigError: the first matching row wins
C1_Witness ==
    /\ last.op = "_call"
    /\ last.attr = <<"r", "i", "g", ".", "m", "o", "d", "e", "m">>
    /\ wire[1].reply.type = "Fault"
    /\ RaisedKind(last.out, "FldigiRigError")

----------------------------------------------------------------------------
(* C2 *)

\* C2: every failure of a statement on the client, through a convenience method, a
\* property or a namespace proxy with any arguments, is one of the four typed errors
\* with the original failure chained as its cause.
C2_EveryFailureTyped ==
    (last.op \in PublicOps /\ last.out.tag = "raise") =>
        /\ last.out.kind \in FldigiErrors
        /\ last.out.cause \in CallFailures

----------------------------------------------------------------------------
(* C3 *)

\* C3: reading frequency, mode or bandwidth first calls rig.get_*; if that raises
\* RigError exactly one call of main.get_* follows and its outcome is the read's;
\* if it raises ModemError or XmlrpcError, as on every transport failure, no call
\* follows and that error is the read's outcome.
C3_GetterFallback ==
    (last.op = "get" /\ last.target \in FallbackProperties) =>
        /\ Len(wire) >= 1
        /\ wire[1].method = RigName(VerbGet, last.target)
        /\ wire[1].args = <<>>
        /\ RaisedKind(wire[1].out, "FldigiRigError") =>
                /\ Len(wire) = 2
                /\ wire[2].method = MainName(VerbGet, last.target)
                /\ wire[2].args = <<>>
                /\ last.out = wire[2].out
                /\ RawOutcome(last.out, wire[2])
        /\ (\/ RaisedKind(wire[1].out, "FldigiModemError")
            \/ RaisedKind(wire[1].out, "FldigiXmlrpcError")) =>
                /\ Len(wire) = 1
                /\ last.out = wire[1].out
        /\ wire[1].reply.type \in CallFailures \ {"Fault"} =>
                /\ RaisedKind(wire[1].out, "FldigiXmlrpcError")
                /\ Len(wire) = 1
        /\ wire[1].reply.type = "ok" =>
                /\ Len(wire) = 1
                /\ last.out = Returned(wire[1].reply.value)

\* a read of frequency fell back after RigError and returned main.get_frequency's result
C3_Witness ==
    /\ last.op = "get"
    /\ last.target = "frequency"
    /\ Len(wire) = 2
    /\ RaisedKind(wire[1].out, "FldigiRigError")
    /\ last.out = Returned(int(14074000))

----------------------------------------------------------------------------
(* C4 *)

\* C4: when rig.set_* is rejected with a Fault, the setter calls main.set_* once with
\* the same value in the same position; if that succeeds the write raises nothing,
\* and if it fails its error is the write's outcome and no call follows.
C4_SetterFallback ==
    (last.op = "set" /\ last.target \in FallbackProperties) =>
        /\ Len(wire) >= 1
        /\ wire[1].method = RigName(VerbSet, last.target)
        /\ wire[1].args = last.args
        /\ wire[1].reply.type = "Fault" =>
                /\ Len(wire) = 2
                /\ wire[2].method = MainName(VerbSet, last.target)
                /\ wire[2].args = last.args
                /\ wire[2].reply.type = "ok" => last.out = Returned(None)
                /\ wire[2].reply.type # "ok" =>
                        /\ last.out = wire[2].out
                        /\ RawOutcome(last.out, wire[2])

\* a write of frequency was rejected by rig.set_frequency and accepted by main.set_frequency
C4_Witness ==
    /\ last.op = "set"
    /\ last.target = "frequency"
    /\ last.args = <<int(14074000)>>
    /\ Len(wire) = 2
    /\ wire[1].reply.type = "Fault"
    /\ wire[2].reply.type = "ok"
    /\ last.out = Returned(None)

----------------------------------------------------------------------------
(* C5 *)

\* C5: each rx() makes one wire call main.rx and returns its raw result; each tx()
\* makes one wire call main.tx.
C5_RxTxCallTheWire ==
    /\ (last.op = "call" /\ last.target = "rx") =>
            /\ Len(wire) = 1
            /\ wire[1].method = <<"m", "a", "i", "n", ".", "r", "x">>
            /\ RawOutcome(last.out, wire[1])
    /\ (last.op = "call" /\ last.target = "tx") =>
            /\ Len(wire) = 1
            /\ wire[1].method = <<"m", "a", "i", "n", ".", "t", "x">>

----------------------------------------------------------------------------
(* C6 *)

\* C6: constructing a client with a well-formed host, port and timeout raises nothing,
\* and add_tx("CQ CQ") on it sends exactly the wire call text.add_tx("CQ CQ") and,
\* the endpoint responding, raises nothing.
C6_ConstructThenAddTx ==
    /\ last.op = "Fldigi" => last.out.tag = "return"
    /\ (last.op = "call" /\ last.target = "add_tx" /\ last.args = <<str("CQ CQ")>>) =>
            /\ Len(wire) = 1
            /\ wire[1].method = <<"t", "e", "x", "t", ".", "a", "d", "d", "_", "t", "x">>
            /\ wire[1].args = <<str("CQ CQ")>>
            /\ wire[1].sent
            /\ wire[1].reply.type = "ok" => last.out.tag = "return"

----------------------------------------------------------------------------
(* C7 *)

\* C7: invoking attribute m of a proxy bound to prefix P with positional arguments
\* makes exactly one dispatcher call, of "P.m" with those arguments in that order, and
\* returns or raises what that dispatcher call does; client.rig.get_mode() is the
\* call of "rig.get_mode" with no arguments.
C7_ProxyIsDirectDispatch ==
    (last.op = "proxy" /\ last.kwargs = {}) =>
        LET P == namespace_property(last.target).namespace
        IN  /\ Len(wire) = 1
            /\ wire[1].method = P \o <<".">> \o last.attr
            /\ wire[1].args = last.args
            /\ last.out = wire[1].out
            /\ RawOutcome(last.out, wire[1])
            /\ [out |-> last.out, wire |-> wire]
                    = _call(P \o <<".">> \o last.attr, last.args, wire[1].reply)
            /\ (last.target = "rig" /\ last.attr = <<"g", "e", "t", "_", "m", "o", "d", "e">>
                    /\ last.args = <<>>) =>
                    /\ wire[1].method
                         = <<"r", "i", "g", ".", "g", "e", "t", "_", "m", "o", "d", "e">>
                    /\ wire[1].args = <<>>

\* client.text.set_frequency(14074000, "CQ CQ") went out as one call with both arguments
C7_Witness ==
    /\ last.op = "proxy"
    /\ last.target = "text"
    /\ last.kwargs = {}
    /\ last.args = <<int(14074000), str("CQ CQ")>>
    /\ Len(wire) = 1
    /\ wire[1].args = <<int(14074000), str("CQ CQ")>>
    /\ wire[1].sent
    /\ last.out = Returned(str("BPSK31"))

----------------------------------------------------------------------------
(* C8 *)

\* C8 as stated: for each of the fourteen namespace properties, invoking attribute a
\* on the property named N dispatches the wire method name "N.a".
C8_PrefixIsPropertyName ==
    (last.op = "proxy" /\ last.kwargs = {}) =>
        /\ Len(wire) = 1
        /\ wire[1].method = spelled(last.target) \o <<".">> \o last.attr

\* C8 amended: for thirteen of the fourteen namespace properties the wire method name
\* is "N.a"; for modem_olivia it is "modem.olivia.a".
C8_PrefixIsNamespace ==
    (last.op = "proxy" /\ last.kwargs = {}) =>
        /\ Len(wire) = 1
        /\ last.target # "modem_olivia" =>
                wire[1].method = spelled(last.target) \o <<".">> \o last.attr
        /\ last.target = "modem_olivia" =>
                wire[1].method
                    = <<"m", "o", "d", "e", "m", ".", "o", "l", "i", "v", "i", "a", ".">>
                        \o last.attr

\* client.modem_olivia.get_mode() went out as modem.olivia.get_mode
C8_Witness ==
    /\ last.op = "proxy"
    /\ last.target = "modem_olivia"
    /\ last.kwargs = {}
    /\ Len(wire) = 1
    /\ wire[1].sent
    /\ wire[1].method = <<"m", "o", "d", "e", "m", ".", "o", "l", "i", "v", "i", "a", ".",
                          "g", "e", "t", "_", "m", "o", "d", "e">>

----------------------------------------------------------------------------
(* C9 *)

\* C9 as stated: every public operation makes at most one round trip.
C9_AtMostOneRoundTrip ==
    last.op \in PublicOps => RoundTrips <= 1

\* C9 amended: every public operation makes at most one round trip, except a read or
\* write of frequency, mode or bandwidth, which makes a second one exactly when the
\* first raised RigError, and never a third.
C9_AtMostOneOrFallback ==
    last.op \in PublicOps =>
        IF last.op \in {"get", "set"} /\ last.target \in FallbackProperties
        THEN /\ Len(wire) \in {1, 2}
             /\ RoundTrips <= Len(wire)
             /\ Len(wire) = 2 <=> RaisedKind(wire[1].out, "FldigiRigError")
             /\ RoundTrips = 2 => RaisedKind(wire[1].out, "FldigiRigError")
        ELSE /\ Len(wire) <= 1
             /\ RoundTrips <= Len(wire)

\* a read of mode made two round trips, the second one failing too
C9_Witness ==
    /\ last.op = "get"
    /\ last.target = "mode"
    /\ Len(wire) = 2
    /\ RoundTrips = 2
    /\ RaisedKind(last.out, "FldigiMainError")

----------------------------------------------------------------------------
(* C10 *)

\* C10: get_rx(start, length) makes exactly one wire call text.get_rx(start, 0, L), L
\* being the length, or zero when none is given, and returns the raw result;
\* get_rx(start=5) sends (5, 0, 0) and get_rx(start=0, length=20) sends (0, 0, 20).
C10_GetRxArguments ==
    (last.op = "call" /\ last.target = "get_rx") =>
        LET start == last.args[1]
            length == last.args[2]
        IN  /\ Len(wire) = 1
            /\ wire[1].sent
            /\ wire[1].method = <<"t", "e", "x", "t", ".", "g", "e", "t", "_", "r", "x">>
            /\ wire[1].args
                 = <<start, int(0), IF length = None THEN int(0) ELSE length>>
            /\ RawOutcome(last.out, wire[1])
            /\ last.args = <<int(5), None>> => wire[1].args = <<int(5), int(0), int(0)>>
            /\ last.args = <<int(0), int(20)>> => wire[1].args = <<int(0), int(0), int(20)>>

\* get_rx(start=5) sent text.get_rx(5, 0, 0) and returned the text it got
C10_Witness ==
    /\ last.op = "call"
    /\ last.target = "get_rx"
    /\ last.args = <<int(5), None>>
    /\ wire[1].args = <<int(5), int(0), int(0)>>
    /\ last.out = Returned(str("BPSK31"))

====
